---- MODULE Spec2Model ----
(***************************************************************************)
(* Model of OfferUp.py: the /item-price-service/ GET handler               *)
(* (ItemPriceService.get), its price resolver (query_item_price_db,        *)
(* query_db), the module-level SimpleCache price_cache and the module-     *)
(* level psycopg2 connection and cursor shared by every request.           *)
(*                                                                         *)
(* Optional values (Python None) are sequences of length 0 or 1: None is   *)
(* <<>> and the value v is <<v>>.  Strings are TLA+ strings and the cache  *)
(* key is built with string concatenation, as the code builds it.          *)
(***************************************************************************)
EXTENDS Integers, Sequences, FiniteSets, TLC

\* ------------------------------------------------------------------ bounds

\* Worker threads of the WSGI server: requests in flight at once.
Threads == {1, 2}
\* Requests started in one behaviour.
MaxRequests == 3
\* Clock advances in one behaviour.
MaxTicks == 2
\* Rows the table holds at once while requests run.
MaxRows == 1
\* Store faults injected in one behaviour.
MaxFaults == 1
\* Rows of the table in the resolver-only model.
MaxTableRows == 4

\* ------------------------------------------------------------- Python values

None == <<>>
Some(v) == <<v>>
IsNone(o) == o = <<>>
Val(o) == o[1]

\* Python truthiness of an optional string: None and "" are falsy.
Truthy(o) == ~IsNone(o) /\ Val(o) # ""

\* ----------------------------------------------------------- request inputs

\* The (item, city) pairs reqparse hands to get(): each absent (None), empty
\* or a string.  "b" \o "a" = "ba": a city and an item whose concatenation is
\* another item.
Inputs == {<<None, None>>, <<None, Some("b")>>, <<Some(""), None>>,
           <<Some("a"), None>>, <<Some("a"), Some("")>>, <<Some("a"), Some("b")>>,
           <<Some("ba"), None>>}

\* ------------------------------------------------------------ the price table

Titles == {"a", "ba"}
Prices == {20, 30}
Cities == {"b", "c"}
\* The kinds of row of "itemPrices_itemsale" the queries read: one per
\* (title, list_price, city).  A table is a bag: kind -> multiplicity.
RowKinds == [title : Titles, list_price : Prices, city : Cities]
\* Row kinds inserted and deleted while requests run.
LiveKinds == {[title |-> "a", list_price |-> 20, city |-> "b"]}
EmptyTable == [k \in RowKinds |-> 0]

RECURSIVE SumOver(_, _)
SumOver(f, S) ==
    IF S = {} THEN 0
    ELSE LET x == CHOOSE y \in S : TRUE IN f[x] + SumOver(f, S \ {x})

TableSize(table) == SumOver(table, RowKinds)

\* ----------------------------------------------------------------- constants

ERROR_RESPONSE == [status |-> 404, content |-> [message |-> "Not found"]]

\* Mutant: a lifetime of four minutes.
TTLM == 4 * 60

\* timeout=5 * 60 of price_cache.set
TTL == 5 * 60

\* The lifetime of an entry in seconds, as the claims state it.
Window == 300

\* --------------------------------------------------------------- SimpleCache

\* Mutant: an entry is still served at the instant it expires.
CacheGetM(c, key, t) ==
    IF key \in DOMAIN c /\ c[key].expires >= t THEN Some(c[key].value) ELSE None

\* SimpleCache.get: the value when the key is present and expires > time(),
\* else None.  An expired entry is not removed by get.
CacheGet(c, key, t) ==
    IF key \in DOMAIN c /\ c[key].expires > t THEN Some(c[key].value) ELSE None

\* Mutant: get deletes the entry it finds expired.
CacheAfterGetM(c, key, t) ==
    IF key \in DOMAIN c /\ c[key].expires <= t
    THEN [k \in DOMAIN c \ {key} |-> c[k]]
    ELSE c

\* Mutant: a hit renews the lifetime of the entry.
CacheAfterGetRenew(c, key, t) ==
    IF key \in DOMAIN c /\ c[key].expires > t
    THEN [c EXCEPT ![key].expires = t + 300]
    ELSE c

\* SimpleCache.get leaves the dictionary as it is: an expired entry stays
\* until a set replaces it.
CacheAfterGet(c, key, t) == c

\* Mutant: set rebuilds the dictionary with the one entry.
CacheSetM(c, key, value, timeout, t) ==
    [k \in {key} |-> [expires |-> t + timeout, value |-> value]]

\* SimpleCache.set(key, value, timeout): expires = time() + timeout, the
\* entry replaces whatever the key held.
CacheSet(c, key, value, timeout, t) ==
    [k \in DOMAIN c \cup {key} |->
        IF k = key THEN [expires |-> t + timeout, value |-> value] ELSE c[k]]

\* --------------------------------------------------------------- get(): keys

\* Lines 96-101: the cache key and the city string of the payload.
PriceKey(item, city) ==
    IF IsNone(city) THEN Val(item) ELSE Val(city) \o Val(item)

\* Mutant: an empty city is reported as not specified.
CityStrM(city) ==
    IF ~Truthy(city) THEN "Not specified" ELSE Val(city)

CityStr(city) ==
    IF IsNone(city) THEN "Not specified" ELSE Val(city)

\* Lines 109-117: the success payload.
Payload(item, item_count, mode, city_str) ==
    [status |-> 200,
     content |-> [item |-> item, item_count |-> item_count,
                  price_suggestion |-> mode, city |-> city_str]]

\* ------------------------------------------------------ query_item_price_db

\* Mutant: the city clause is used whenever a city was supplied.
UseCityClauseM(city, item) == ~IsNone(city) /\ Truthy(item)

\* Lines 134-139: the city clause is used when city and item are both truthy.
UseCityClause(city, item) == Truthy(city) /\ Truthy(item)

\* query_data: (item, city) with the city clause, (item,) without.
QueryData(city, item) ==
    IF UseCityClause(city, item) THEN <<Val(item), Val(city)>> ELSE <<Val(item)>>

\* WHERE title=%s [AND city=%s] with the parameters bound in order.
Matches(kind, data) ==
    /\ kind.title = data[1]
    /\ Len(data) = 2 => kind.city = data[2]

Matching(data) == {k \in RowKinds : Matches(k, data)}

\* SELECT COUNT(list_price) ... : one row holding the number of matching rows.
CountQuery(table, data) == << <<SumOver(table, Matching(data))>> >>

\* Frequency of a price among the matching rows.
Frequency(table, data, p) ==
    SumOver(table, {k \in Matching(data) : k.list_price = p})

\* GROUP BY list_price: the prices that occur.
Groups(table, data) == {p \in Prices : Frequency(table, data, p) > 0}

\* Mutant: ties in frequency ordered by ascending price.
OrderedBeforeM(table, data, p, q) ==
    \/ Frequency(table, data, p) > Frequency(table, data, q)
    \/ /\ Frequency(table, data, p) = Frequency(table, data, q)
       /\ p < q

\* ORDER BY COUNT(list_price) DESC, list_price DESC: p sorts before q.
OrderedBefore(table, data, p, q) ==
    \/ Frequency(table, data, p) > Frequency(table, data, q)
    \/ /\ Frequency(table, data, p) = Frequency(table, data, q)
       /\ p > q

\* SELECT list_price, COUNT(list_price) ... LIMIT 1: the first group in the
\* order, as one row (list_price, frequency); no row when nothing matches.
ModeQuery(table, data) ==
    LET gs == Groups(table, data) IN
    IF gs = {} THEN <<>>
    ELSE LET first == CHOOSE p \in gs :
                         \A q \in gs \ {p} : OrderedBefore(table, data, p, q)
         IN << <<first, Frequency(table, data, first)>> >>

\* -------------------------------------------------------------------- state

VARIABLES
    now,      \* time(), in seconds
    table,    \* "itemPrices_itemsale": row kind -> number of such rows
    cache,    \* price_cache._cache: key -> [expires, value]
    conn,     \* the module-level connection: transaction status, closed
    cursor,   \* the module-level cursor: the result of the last execute
    log,      \* entries written through the logging module
    th,       \* per worker thread: the request it runs, position and locals
    writer,   \* history: key -> who stored its entry (item, city) and when
    started,  \* requests started so far
    faults    \* store faults injected so far

vars == <<now, table, cache, conn, cursor, log, th, writer, started, faults>>

\* A thread with no request.  pc .. mode are the request's arguments, position
\* and locals; resp is the payload it returned and raised the exception it
\* left get() with.  The other fields are history, not state of the program:
\*   probed, hit   the request called cache.get; it returned a payload
\*   src           on a hit, the (item, city) of the request that stored it
\*   stored        the request called cache.set
\*   touched       a step of the request changed the cache
\*   queries       the queries it passed to cursor.execute, in order
\*   foreign       a fetchone of it did not return the row of its own execute
\*   caught        it entered the except clause of query_db
\*   met           the error its call of execute or fetchone raised
\*   trail         what the except clause did, in order
\*   dirty         another request stored under its key after its last cache call
\*   at, storedAt  when it returned; when the payload it returned was stored
\*   expired       at its probe the key held an entry past its lifetime
\*   expiredOwn    ... stored by a request with the same item and city
\*   again         the success payload the previous identical request (of this
\*                 thread) returned less than TTL seconds before this one
\*   same          that payload, when it was stored less than TTL seconds before
\*                 this request and no other store under the key followed
\*   afterZero     the previous identical request found no rows, and no row
\*                 matches when this one starts
\*   afterNF       the previous identical request found no rows and no store
\*                 under the key followed
\*   afterQE       a request had failed in the except clause when this started
IdleThread ==
    [pc |-> "idle", item |-> None, city |-> None,
     count |-> None, item_count |-> None, mode |-> None,
     resp |-> None, raised |-> None,
     probed |-> FALSE, hit |-> FALSE, src |-> None, stored |-> FALSE,
     touched |-> FALSE, queries |-> <<>>, foreign |-> FALSE, caught |-> FALSE,
     trail |-> <<>>, dirty |-> FALSE, at |-> None, storedAt |-> None,
     met |-> None,
     expired |-> FALSE, expiredOwn |-> FALSE, again |-> None, same |-> None,
     afterZero |-> FALSE, afterNF |-> FALSE, afterQE |-> FALSE]

NoResult == [has |-> FALSE, rows |-> <<>>]

Init ==
    /\ now = 0
    /\ table = EmptyTable
    /\ cache = <<>>
    /\ conn = [txn |-> "idle", closed |-> FALSE]
    /\ cursor = NoResult
    /\ log = <<>>
    /\ th = [t \in Threads |-> IdleThread]
    /\ writer = <<>>
    /\ started = 0
    /\ faults = 0

IsSuccess(resp) == ~IsNone(resp) /\ Val(resp).status = 200

\* ------------------------------------------------------------ get(): entry

\* The request leaves get() with an unhandled exception (Flask answers 500).
Raise(rec, exc, t) == [rec EXCEPT !.pc = "done", !.raised = Some(exc)]

\* Mutant: the except clause catches every error.
HandledM(exc) == TRUE

\* Line 182, except psycopg2.ProgrammingError: the errors the clause catches.
\* OperationalError, InternalError and InterfaceError are not subclasses of
\* ProgrammingError.
Handled(exc) == exc = "ProgrammingError"

\* Lines 179-182: execute or fetchone raised exc inside the try block; it is
\* caught by the except clause or leaves get().
Fail(rec, exc, t) ==
    IF Handled(exc)
    THEN [rec EXCEPT !.pc = "except", !.caught = TRUE, !.met = Some(exc)]
    ELSE Raise([rec EXCEPT !.met = Some(exc)], exc, t)

\* The request returns a payload.
Return(rec, payload, t) ==
    [rec EXCEPT !.pc = "done", !.resp = Some(payload),
                !.at = IF payload.status = 200 THEN Some(t) ELSE None]

\* What a request that follows `prev` on the same thread remembers of it.
Follows(prev, item, city, t, others, rows) ==
    LET repeat == /\ prev.pc = "done"
                  /\ prev.item = item /\ prev.city = city
        ok == repeat /\ IsSuccess(prev.resp)
        zero == repeat /\ prev.item_count = Some(0) /\ IsNone(prev.raised)
    IN [IdleThread EXCEPT
          !.item = item, !.city = city,
          !.again = IF ok /\ t < Val(prev.at) + Window THEN prev.resp ELSE None,
          !.same = IF ok /\ ~prev.dirty /\ t < Val(prev.storedAt) + Window
                   THEN prev.resp ELSE None,
          !.afterZero = zero /\ SumOver(rows, Matching(QueryData(city, item))) = 0,
          !.afterNF = zero /\ ~prev.dirty,
          !.afterQE = \E u \in DOMAIN others :
                         others[u].pc = "done" /\ others[u].caught]

\* Lines 90-103: parse the arguments, answer a missing item, derive the key
\* and probe the cache; a hit returns the cached payload.
Enter(rec, c, c2, w, t) ==
    LET item == rec.item
        city == rec.city
    IN
    IF IsNone(item) THEN Return(rec, ERROR_RESPONSE, t)
    ELSE LET key == PriceKey(item, city)
             price == CacheGet(c, key, t)
             seen == [rec EXCEPT !.probed = TRUE, !.hit = ~IsNone(price),
                                 !.touched = c2 # c,
                                 !.expired = key \in DOMAIN c /\ c[key].expires <= t,
                                 !.expiredOwn = /\ key \in DOMAIN c
                                                /\ c[key].expires <= t
                                                /\ w[key].by = <<item, city>>,
                                 !.src = IF IsNone(price) THEN None
                                         ELSE Some(w[key].by),
                                 !.storedAt = IF IsNone(price) THEN None
                                              ELSE Some(w[key].at)]
         IN IF IsNone(price) THEN [seen EXCEPT !.pc = "count_exec"]
            ELSE Return(seen, Val(price), t)

Request(t, item, city, limit) ==
    LET rec == Follows(th[t], item, city, now, th, table)
        c2 == IF IsNone(item) THEN cache
              ELSE CacheAfterGet(cache, PriceKey(item, city), now)
    IN
    /\ th[t].pc \in {"idle", "done"}
    /\ started < limit
    /\ cache' = c2
    /\ th' = [th EXCEPT ![t] = Enter(rec, cache, c2, writer, now)]
    /\ started' = started + 1
    /\ UNCHANGED <<now, table, conn, cursor, log, writer, faults>>

\* ---------------------------------------------------- query_db: execute

QueryOf(pc) == IF pc = "count_exec" THEN "count" ELSE "mode"

\* The rows the server answers, each marked with the thread and query that
\* produced it (the mark is not visible to the program).
ResultRows(t, q, data) ==
    LET rows == IF q = "count" THEN CountQuery(table, data)
                ELSE ModeQuery(table, data)
    IN [i \in 1..Len(rows) |-> [vals |-> rows[i], by |-> t, q |-> q]]

\* What cursor.execute can do: answer, or fail with a ProgrammingError (the
\* server rejects the statement and aborts the transaction), or fail with an
\* OperationalError (the connection is lost, and its transaction with it).
StoreOutcomes == {"ok", "ProgrammingError", "OperationalError"}

\* Line 180, cursor.execute(query_string, query_data).
Execute(t, outcomes) ==
    LET me == th[t]
        q == QueryOf(me.pc)
        called == [me EXCEPT !.queries = Append(@, q)]
    IN
    /\ me.pc \in {"count_exec", "mode_exec"}
    /\ \E o \in outcomes :
        /\ o # "ok" => faults < MaxFaults /\ ~conn.closed
        /\ o = "ProgrammingError" => conn.txn # "aborted"
        /\ faults' = IF o = "ok" THEN faults ELSE faults + 1
        /\ IF conn.closed
           THEN \* InterfaceError: connection already closed
                /\ th' = [th EXCEPT ![t] = Fail(called, "InterfaceError", now)]
                /\ UNCHANGED <<conn, cursor>>
           ELSE IF o = "OperationalError"
           THEN /\ th' = [th EXCEPT ![t] = Fail(called, "OperationalError", now)]
                /\ cursor' = NoResult
                /\ conn' = [txn |-> "idle", closed |-> TRUE]
           ELSE IF conn.txn = "aborted"
           THEN \* InternalError: current transaction is aborted
                /\ th' = [th EXCEPT ![t] = Fail(called, "InternalError", now)]
                /\ cursor' = NoResult
                /\ UNCHANGED conn
           ELSE IF o = "ProgrammingError"
           THEN /\ th' = [th EXCEPT ![t] = Fail(called, "ProgrammingError", now)]
                /\ cursor' = NoResult
                /\ conn' = [conn EXCEPT !.txn = "aborted"]
           ELSE /\ th' = [th EXCEPT ![t] =
                            [called EXCEPT !.pc = IF q = "count" THEN "count_fetch"
                                                  ELSE "mode_fetch"]]
                /\ cursor' = [has |-> TRUE,
                              rows |-> ResultRows(t, q, QueryData(me.city, me.item))]
                /\ conn' = [conn EXCEPT !.txn = "intrans"]
    /\ UNCHANGED <<now, table, cache, log, writer, started>>

\* ------------------------------------ query_db: fetchone, and lines 158-163

\* Mutant: the resolver without the short cut.
CountIsZeroM(count) == FALSE

\* Line 159: the resolver's short cut on an empty count.
CountIsZero(count) == count = 0

\* Lines 158-163 after a fetchone that returned a row: [0] of the row is the
\* count (first query) or the mode (second query).
Fetched(me, value) ==
    IF me.pc = "count_fetch"
    THEN IF CountIsZero(value)
         THEN [me EXCEPT !.pc = "finish", !.item_count = Some(0), !.mode = None]
         ELSE [me EXCEPT !.pc = "mode_exec", !.count = Some(value)]
    ELSE [me EXCEPT !.pc = "finish", !.item_count = me.count, !.mode = Some(value)]

\* The row is the one the thread's own execute produced.
OwnRow(row, t, pc) == row.by = t /\ row.q = (IF pc = "count_fetch" THEN "count" ELSE "mode")

\* Line 181, cursor.fetchone(), and the [0] applied to what it returns.
FetchOne(t) ==
    LET me == th[t]
        other == [me EXCEPT !.foreign = TRUE]
    IN
    /\ me.pc \in {"count_fetch", "mode_fetch"}
    /\ IF conn.closed
       THEN \* InterfaceError: the cursor's connection is closed
            /\ th' = [th EXCEPT ![t] = Fail(me, "InterfaceError", now)]
            /\ UNCHANGED cursor
       ELSE IF ~cursor.has
       THEN \* ProgrammingError: no results to fetch; caught on line 182
            /\ th' = [th EXCEPT ![t] = Fail(other, "ProgrammingError", now)]
            /\ UNCHANGED cursor
       ELSE IF cursor.rows = <<>>
       THEN \* fetchone() returns None, and None[0] is a TypeError
            /\ th' = [th EXCEPT ![t] = Raise(other, "TypeError", now)]
            /\ UNCHANGED cursor
       ELSE LET row == Head(cursor.rows) IN
            /\ th' = [th EXCEPT ![t] =
                        Fetched(IF OwnRow(row, t, me.pc) THEN me ELSE other,
                                row.vals[1])]
            /\ cursor' = [cursor EXCEPT !.rows = Tail(@)]
    /\ UNCHANGED <<now, table, cache, conn, log, writer, started, faults>>

\* ------------------------------------------------ query_db: except clause

\* Line 184, logging.ERROR('DB Programming Error'): logging.ERROR is the
\* integer level 40, not the function logging.error, so the call raises
\* TypeError and no entry is written.
LogCall(entries, msg) == [log |-> entries, raised |-> Some("TypeError")]

\* Mutant: the except clause without the rollback.
RollbackM(c) == c

\* Line 183, connection.rollback(): the aborted transaction is ended.
Rollback(c) == [c EXCEPT !.txn = "idle"]

\* Lines 182-185: connection.rollback(), the logging call, raise e.
Except(t) ==
    LET me == th[t]
        rolled == [me EXCEPT !.trail = Append(@, "rollback")]
        l == LogCall(log, "DB Programming Error")
    IN
    /\ me.pc = "except"
    /\ IF conn.closed
       THEN \* rollback() on a closed connection raises InterfaceError
            /\ th' = [th EXCEPT ![t] = Raise(me, "InterfaceError", now)]
            /\ UNCHANGED <<conn, log>>
       ELSE /\ conn' = Rollback(conn)
            /\ log' = l.log
            /\ th' = [th EXCEPT ![t] =
                        IF IsNone(l.raised)
                        THEN Raise([rolled EXCEPT !.trail = Append(@, "log")],
                                   "ProgrammingError", now)
                        ELSE Raise(rolled, Val(l.raised), now)]
    /\ UNCHANGED <<now, table, cache, cursor, writer, started, faults>>

\* ------------------------------------------------------ get(): lines 105-120

\* Mutant: the empty result is not told apart.
IsEmptyResultM(item_count) == FALSE

\* Mutant: the test is for a negative count.
IsEmptyResultNeg(item_count) == item_count < 0

\* Line 106: a valid query without results.
IsEmptyResult(item_count) == item_count = 0

\* A thread whose current or last request derived this key.
HasKey(rec, key) ==
    /\ ~IsNone(rec.item)
    /\ PriceKey(rec.item, rec.city) = key

\* Lines 106-120: answer not-found on an empty result; else build the payload,
\* store it for 5 minutes and return it.
Finish(t) ==
    LET me == th[t]
        key == PriceKey(me.item, me.city)
        price == Payload(Val(me.item), Val(me.item_count), me.mode, CityStr(me.city))
    IN
    /\ me.pc = "finish"
    /\ IF IsEmptyResult(Val(me.item_count))
       THEN /\ th' = [th EXCEPT ![t] = Return(me, ERROR_RESPONSE, now)]
            /\ UNCHANGED <<cache, writer>>
       ELSE /\ cache' = CacheSet(cache, key, price, TTL, now)
            /\ writer' = [k \in DOMAIN writer \cup {key} |->
                            IF k = key THEN [by |-> <<me.item, me.city>>, at |-> now]
                            ELSE writer[k]]
            /\ th' = [u \in Threads |->
                        IF u = t
                        THEN Return([me EXCEPT !.stored = TRUE, !.touched = TRUE,
                                               !.dirty = FALSE,
                                               !.storedAt = Some(now)], price, now)
                        ELSE IF HasKey(th[u], key)
                        THEN [th[u] EXCEPT !.dirty = TRUE]
                        ELSE th[u]]
    /\ UNCHANGED <<now, table, conn, cursor, log, started, faults>>

\* ---------------------------------------------------------- the environment

\* The clock advances by a second or by a second less than the lifetime.
Steps == {1, TTL - 1}
TicksUsed == (now \div (TTL - 1)) + (now % (TTL - 1))

Tick(d) ==
    /\ TicksUsed < MaxTicks
    /\ now' = now + d
    /\ UNCHANGED <<table, cache, conn, cursor, log, th, writer, started, faults>>

\* Other clients of the database insert and delete rows of the table.
Insert(k) ==
    /\ TableSize(table) < MaxRows
    /\ table' = [table EXCEPT ![k] = @ + 1]
    /\ UNCHANGED <<now, cache, conn, cursor, log, th, writer, started, faults>>

Delete(k) ==
    /\ table[k] > 0
    /\ table' = [table EXCEPT ![k] = @ - 1]
    /\ UNCHANGED <<now, cache, conn, cursor, log, th, writer, started, faults>>

\* ------------------------------------------------------------ specifications

Next ==
    \/ \E t \in Threads, a \in Inputs : Request(t, a[1], a[2], MaxRequests)
    \/ \E t \in Threads : Execute(t, StoreOutcomes)
    \/ \E t \in Threads : FetchOne(t)
    \/ \E t \in Threads : Except(t)
    \/ \E t \in Threads : Finish(t)
    \/ \E d \in Steps : Tick(d)
    \/ \E k \in LiveKinds : Insert(k)
    \/ \E k \in LiveKinds : Delete(k)

\* Concurrent requests on the shared cache, connection and cursor, with a
\* changing table, a running clock and store faults.
Spec == Init /\ [][Next]_vars

\* All tables of at most MaxTableRows rows.
Tables ==
    LET seqs == UNION {[1..n -> RowKinds] : n \in 0..MaxTableRows}
    IN {[k \in RowKinds |-> Cardinality({i \in DOMAIN s : s[i] = k})] : s \in seqs}

InitResolver ==
    /\ now = 0
    /\ table \in Tables
    /\ cache = <<>>
    /\ conn = [txn |-> "idle", closed |-> FALSE]
    /\ cursor = NoResult
    /\ log = <<>>
    /\ th = [t \in Threads |-> IdleThread]
    /\ writer = <<>>
    /\ started = 0
    /\ faults = 0

NextResolver ==
    \/ \E a \in Inputs : Request(1, a[1], a[2], 1)
    \/ Execute(1, {"ok"})
    \/ FetchOne(1)
    \/ Finish(1)

\* One request alone on any table: the price resolver without interference.
SpecResolver == InitResolver /\ [][NextResolver]_vars

\* -------------------------------------------------------------------- claims

NotFound == [status |-> 404, content |-> [message |-> "Not found"]]

Key(rec) == PriceKey(rec.item, rec.city)

\* C1: a request whose item is absent or empty answers exactly the not-found
\* payload and performs no cache get, no cache set and no store query.
\* (Stated as claimed; the code does this for an absent item only.)
C1_MissingItemBypasses ==
    \A t \in Threads :
        th[t].pc # "idle" /\ ~Truthy(th[t].item) =>
            /\ th[t].pc = "done"
            /\ th[t].resp = Some(NotFound)
            /\ ~th[t].probed /\ ~th[t].stored /\ th[t].queries = <<>>

\* C2 as claimed: after a request that missed the cache and counted zero rows,
\* the identical request that follows, with still no row matching, misses the
\* cache again.  (What is stated is the least the claim says: the repeat is
\* not answered from an entry that a request with the same item and city
\* stored.)
C2_RepeatMissesAgain ==
    \A t \in Threads :
        th[t].afterZero =>
            ~(th[t].hit /\ th[t].src = Some(<<th[t].item, th[t].city>>))

\* C2 amended: a request that missed the cache and whose count query returned
\* zero answers the not-found payload and changes nothing in the cache; unless
\* another request stores under its key, the key misses now and at any later
\* time, and the identical request that follows misses the cache and issues
\* the count query first.
C2_ZeroCountNotCached ==
    \A t \in Threads :
        LET me == th[t] IN
        /\ me.pc = "done" /\ me.item_count = Some(0) /\ IsNone(me.raised) =>
              /\ me.resp = Some(NotFound)
              /\ ~me.touched /\ ~me.stored
              /\ ~me.dirty =>
                    \A later \in {now, now + 1, now + Window - 1, now + Window} :
                        IsNone(CacheGet(cache, Key(me), later))
        /\ me.afterNF =>
              /\ me.probed /\ ~me.hit
              /\ \/ me.pc = "count_exec"
                 \/ Len(me.queries) >= 1 /\ me.queries[1] = "count"

C2_Witness ==
    \E t \in Threads :
        /\ th[t].afterNF /\ th[t].pc = "done"
        /\ th[t].item_count = Some(0) /\ th[t].resp = Some(NotFound)
        /\ th[t].queries = <<"count">>
        /\ cache # <<>>

\* C3: for a request that runs alone on a table with matching rows, item_count
\* is the number of matching rows and price_suggestion is the list_price of
\* highest frequency among them, the largest such price on a tie.
C3_ModePrice ==
    LET me == th[1]
        match == {k \in RowKinds :
                    /\ k.title = Val(me.item)
                    /\ Truthy(me.city) /\ Truthy(me.item) => k.city = Val(me.city)}
        n == SumOver(table, match)
        freq(p) == SumOver(table, {k \in match : k.list_price = p})
    IN me.pc = "done" /\ ~IsNone(me.item) /\ n > 0 =>
          /\ IsSuccess(me.resp)
          /\ Val(me.resp).content.item_count = n
          /\ \E p \in Prices :
                /\ Val(me.resp).content.price_suggestion = Some(p)
                /\ freq(p) > 0
                /\ \A q \in Prices :
                      \/ freq(q) < freq(p)
                      \/ freq(q) = freq(p) /\ q <= p

\* The tie of the specification: prices 20, 20, 30, 30 give count 4 and 30.
C3_Witness ==
    /\ th[1].pc = "done"
    /\ th[1].item = Some("a") /\ th[1].city = Some("b")
    /\ table[[title |-> "a", list_price |-> 20, city |-> "b"]] = 2
    /\ table[[title |-> "a", list_price |-> 30, city |-> "b"]] = 2
    /\ IsSuccess(th[1].resp)
    /\ Val(th[1].resp).content.item_count = 4
    /\ Val(th[1].resp).content.price_suggestion = Some(30)

\* C4 as claimed: the same request issued again less than 300 seconds after
\* it returned a success payload is served from the cache: it returns the
\* identical payload and issues no query.
C4_RepeatWithinWindow ==
    \A t \in Threads :
        ~IsNone(th[t].again) =>
            /\ th[t].hit
            /\ th[t].resp = th[t].again
            /\ th[t].queries = <<>>

\* C4 amended: the same request issued again less than 300 seconds after the
\* payload it returned was stored in the cache, with no other store under the
\* key since, is a cache hit that returns the identical payload and issues no
\* query, whatever the table holds by then.
C4_RepeatWithinLifetime ==
    \A t \in Threads :
        ~IsNone(th[t].same) =>
            /\ th[t].pc = "done" /\ th[t].hit
            /\ th[t].resp = th[t].same
            /\ th[t].queries = <<>> /\ ~th[t].stored

\* A repeat served from the cache after the rows it counted were deleted.
C4_Witness ==
    \E t \in Threads :
        /\ ~IsNone(th[t].same) /\ th[t].pc = "done"
        /\ now >= Window - 1
        /\ table = EmptyTable
        /\ Val(th[t].resp).content.item_count = 1

C6_CityKeysDistinct ==
    \A t \in Threads :
        th[t].hit =>
            LET by == Val(th[t].src) IN
            ~ /\ by[1] = th[t].item
              /\ by[2] # th[t].city
              /\ IsNone(by[2]) \/ IsNone(th[t].city)

\* C7: every fetchone returns the row produced by the execute of the same
\* request.  (Stated as claimed; the cursor is shared and not locked.)
C7_OwnRows == \A t \in Threads : ~th[t].foreign

\* C8: a request that met a programming error rolls back, then writes a log
\* entry, then fails without a payload.
\* (Stated as claimed; the logging call itself raises.)
C8_RollbackLogFail ==
    \A t \in Threads :
        th[t].pc = "done" /\ th[t].caught =>
            /\ th[t].trail = <<"rollback", "log">>
            /\ log # <<>>
            /\ IsNone(th[t].resp) /\ ~IsNone(th[t].raised)

\* C9: the connection holds an aborted transaction only while a request is
\* still inside the except clause: once a request has failed with a
\* programming error the transaction is rolled back.
C9_NoAbortedLeft ==
    conn.txn = "aborted" => \E t \in Threads : th[t].pc = "except"

\* A request started after such a failure ran both queries and succeeded.
C9_Witness ==
    \E t \in Threads :
        /\ th[t].afterQE /\ th[t].pc = "done"
        /\ IsSuccess(th[t].resp) /\ th[t].stored
        /\ th[t].queries = <<"count", "mode">> /\ ~th[t].foreign

\* C10: a request that failed changed nothing in the cache.
C10_FailedLeavesCache ==
    \A t \in Threads :
        th[t].pc = "done" /\ ~IsNone(th[t].raised) =>
            ~th[t].touched /\ ~th[t].stored /\ IsNone(th[t].resp)

\* A request failed at the mode query with the cache holding entries.
C10_Witness ==
    \E t \in Threads :
        /\ th[t].pc = "done" /\ th[t].raised = Some("OperationalError")
        /\ th[t].queries = <<"count", "mode">>
        /\ th[t].expired
        /\ cache # <<>>

\* C11: the success payload built on a cache miss has the requested item, the
\* item_count and price_suggestion the resolver returned, and as city the
\* supplied string verbatim or "Not specified" when none was supplied; that
\* payload is the entry stored under the request's key and the response.
C11_MissPayload ==
    LET me == th[1] IN
    me.pc = "done" /\ me.stored =>
        /\ ~me.hit /\ ~IsNone(me.resp)
        /\ Val(me.resp).status = 200
        /\ Val(me.resp).content.item = Val(me.item)
        /\ Val(me.resp).content.item_count = Val(me.item_count)
        /\ Val(me.resp).content.price_suggestion = me.mode
        /\ Val(me.resp).content.city =
              (IF me.city = None THEN "Not specified" ELSE Val(me.city))
        /\ Key(me) \in DOMAIN cache
        /\ cache[Key(me)].value = Val(me.resp)

\* A request that supplied the empty city stored and returned city "".
C11_Witness ==
    /\ th[1].pc = "done" /\ th[1].stored
    /\ th[1].item = Some("a") /\ th[1].city = Some("")
    /\ Val(th[1].resp).content.city = ""
    /\ Val(th[1].resp).content.item_count = 3
    /\ cache["a"].value = Val(th[1].resp)

\* C12: in every reachable state every cache entry is a success payload:
\* status 200, item_count at least 1 and a price_suggestion that is not None;
\* the not-found payload is stored under no key.
C12_OnlySuccessCached ==
    \A k \in DOMAIN cache :
        LET v == cache[k].value IN
        /\ v # NotFound
        /\ v.status = 200
        /\ DOMAIN v.content = {"item", "item_count", "price_suggestion", "city"}
        /\ v.content.item_count >= 1
        /\ ~IsNone(v.content.price_suggestion)

\* The cache holds an entry after a not-found answer and a failed request.
C12_Witness ==
    /\ cache # <<>>
    /\ \E t \in Threads :
          /\ th[t].pc = "done" /\ th[t].item_count = Some(0)
          /\ th[t].resp = Some(NotFound)
    /\ \E t \in Threads :
          th[t].pc = "done" /\ ~IsNone(th[t].raised)

\* C13: the count query and the mode query of a request answer over the same
\* rows: those with title = item and city = city when item and city are both
\* non-empty, those with title = item in any city otherwise.  The count row
\* is the number of these rows, and the mode row is a most frequent price
\* among them with its frequency among them.
C13_CityFilter ==
    LET me == th[1]
        nonEmpty(o) == o # None /\ o # Some("")
        byCity == nonEmpty(me.item) /\ nonEmpty(me.city)
        match == {k \in RowKinds :
                    /\ k.title = Val(me.item)
                    /\ byCity => k.city = Val(me.city)}
        n == SumOver(table, match)
        freq(p) == SumOver(table, {k \in match : k.list_price = p})
    IN
    /\ me.pc = "count_fetch" =>
          /\ Len(cursor.rows) = 1
          /\ cursor.rows[1].vals = <<n>>
    /\ me.pc = "mode_fetch" =>
          /\ me.count = Some(n)
          /\ Len(cursor.rows) = 1
          /\ LET r == cursor.rows[1].vals IN
                /\ r[1] \in Prices
                /\ r[2] = freq(r[1]) /\ r[2] > 0
                /\ \A p \in Prices : freq(p) <= r[2]

\* A request with the empty city aggregates over the rows of both cities.
C13_Witness ==
    /\ th[1].pc = "mode_fetch"
    /\ th[1].item = Some("a") /\ th[1].city = Some("")
    /\ table[[title |-> "a", list_price |-> 20, city |-> "b"]] = 1
    /\ table[[title |-> "a", list_price |-> 20, city |-> "c"]] = 1
    /\ table[[title |-> "a", list_price |-> 30, city |-> "b"]] = 1
    /\ th[1].count = Some(3)
    /\ cursor.rows[1].vals = <<20, 2>>

\* C14: a request issues no query on a cache hit; on a miss it issues the
\* count query first and the mode query only after the count query returned
\* a count other than zero, so a request that was answered issued one query
\* when the count was zero and two, count then mode, otherwise.
C14_QueryPattern ==
    \A t \in Threads :
        LET me == th[t]
            missed == me.probed /\ ~me.hit
        IN
        /\ me.hit => me.queries = <<>>
        /\ me.queries \in {<<>>, <<"count">>, <<"count", "mode">>}
        /\ me.queries # <<>> => missed
        /\ missed /\ me.pc # "count_exec" => me.queries # <<>>
        /\ Len(me.queries) = 2 => ~IsNone(me.count) /\ Val(me.count) # 0
        /\ missed /\ me.pc = "done" /\ IsNone(me.raised) =>
              IF me.item_count = Some(0)
              THEN me.queries = <<"count">>
              ELSE me.queries = <<"count", "mode">> /\ me.item_count = me.count

\* One request answered from the cache, one answered after a zero count.
C14_Witness ==
    \E t, u \in Threads :
        /\ th[t].pc = "done" /\ th[t].hit /\ th[t].queries = <<>>
        /\ IsSuccess(th[t].resp)
        /\ th[u].pc = "done" /\ th[u].item_count = Some(0)
        /\ th[u].resp = Some(NotFound) /\ th[u].queries = <<"count">>

\* C15: every cache entry expires 300 seconds after the set that stored it,
\* and a hit changes nothing in the cache: a request is answered from an
\* entry only less than 300 seconds after the entry was stored, however
\* often the entry was read before.
C15_FixedLifetime ==
    /\ DOMAIN cache = DOMAIN writer
    /\ \A k \in DOMAIN cache : cache[k].expires = writer[k].at + Window
    /\ \A t \in Threads :
          th[t].hit =>
              /\ ~th[t].touched
              /\ Val(th[t].at) < Val(th[t].storedAt) + Window
              /\ Val(th[t].at) >= Val(th[t].storedAt)

\* An entry stored at 0 and read at 1 is no longer served at 300.
C15_Witness ==
    \E t, u \in Threads :
        /\ th[u].hit /\ th[u].storedAt = Some(0) /\ th[u].at = Some(1)
        /\ th[t].probed /\ th[t].expired /\ ~th[t].hit
        /\ Key(th[t]) = Key(th[u])
        /\ now = Window
        /\ cache[Key(th[u])].expires = Window

\* C16: only a ProgrammingError raised by a store call is followed by a
\* rollback; a request whose store call raised any other error has at once
\* left get() with that error, without a rollback, without a repeated query
\* and without a write to the cache.
C16_OnlyQueryErrorRollsBack ==
    \A t \in Threads :
        LET me == th[t] IN
        /\ me.trail # <<>> => me.met = Some("ProgrammingError")
        /\ ~IsNone(me.met) /\ me.met # Some("ProgrammingError") =>
              /\ me.pc = "done" /\ me.raised = me.met
              /\ ~me.caught /\ me.trail = <<>>
              /\ me.queries \in {<<"count">>, <<"count", "mode">>}
              /\ ~me.stored /\ ~me.touched /\ IsNone(me.resp)

\* A request failed at its mode query on the transaction that another
\* request's programming error had aborted, and left it aborted.
C16_Witness ==
    \E t \in Threads :
        /\ th[t].met = Some("InternalError") /\ th[t].pc = "done"
        /\ th[t].queries = <<"count", "mode">>
        /\ conn.txn = "aborted"

C18_PayloadDescribesRequest ==
    \A t \in Threads :
        th[t].pc = "done" /\ IsSuccess(th[t].resp) =>
            /\ Val(th[t].resp).content.item = Val(th[t].item)
            /\ Val(th[t].resp).content.city =
                  (IF th[t].city = None THEN "Not specified" ELSE Val(th[t].city))

====
